---- MODULE Spec2Model ----
\* A model of the SaveToDatabase dialog component
\* (src/src/components/ToolTrainer/SaveToDatabase.tsx).
\*
\* Strings that the code trims or tests for emptiness are modelled as
\* sequences of one-character strings, so that trim() is computed and not
\* assumed.  Strings the code only passes along (toast texts, error messages)
\* are TLA+ strings.
EXTENDS Naturals, Sequences, FiniteSets

VARIABLES
    isOpen,        \* useState(false), line 29
    isSaving,      \* useState(false), line 30
    name,          \* useState(exampleName), line 31
    description,   \* useState(""), line 32
    localTags,     \* useState(tags), line 33
    saveMode,      \* useState("database"), line 34
    filePath,      \* useState(""), line 35
    messages,      \* prop, line 25
    tags,          \* prop, line 26
    tagsGiven,     \* whether the host passes tags, or leaves it to the default []
    exampleName,   \* prop, line 27
    inflight,      \* the persistence calls awaited by suspended handleSave invocations
    ev             \* what the last step did: its operation, API calls and toasts

vars == <<isOpen, isSaving, name, description, localTags, saveMode, filePath,
          messages, tags, tagsGiven, exampleName, inflight, ev>>

state == <<isOpen, isSaving, name, description, localTags, saveMode, filePath>>

props == <<messages, tags, tagsGiven, exampleName>>

-----------------------------------------------------------------------------
\* Bounds of the filter specification.

MaxChunks == 2

MaxMsgs == 2

-----------------------------------------------------------------------------
\* String.prototype.trim

IsSpace(c) ==
    c \in {" ", "\t", "\n"}

RECURSIVE TrimStart(_)
TrimStart(s) ==
    IF s = <<>> THEN <<>>
    ELSE IF IsSpace(Head(s)) THEN TrimStart(Tail(s))
    ELSE s

RECURSIVE TrimEnd(_)
TrimEnd(s) ==
    IF s = <<>> THEN <<>>
    ELSE IF IsSpace(s[Len(s)]) THEN TrimEnd(SubSeq(s, 1, Len(s) - 1))
    ELSE s

Trim(s) ==
    TrimEnd(TrimStart(s))

\* "a, b ,, c".split(",")
RECURSIVE SplitFrom(_, _, _)
SplitFrom(s, i, cur) ==
    IF i > Len(s) THEN <<cur>>
    ELSE IF s[i] = "," THEN <<cur>> \o SplitFrom(s, i + 1, <<>>)
    ELSE SplitFrom(s, i + 1, Append(cur, s[i]))

Split(s) ==
    SplitFrom(s, 1, <<>>)

NonEmptyTag(tag) ==
    tag # <<>>

\* e.target.value.split(",").map((tag) => tag.trim()).filter((tag) => tag)
ParseTags(raw) ==
    LET parts == Split(raw)
        trimmed == [i \in 1..Len(parts) |-> Trim(parts[i])]
    IN  SelectSeq(trimmed, NonEmptyTag)

-----------------------------------------------------------------------------
\* The message filter of handleSave.

\* A chunk whose text is absent (undefined) has hasText = FALSE.
Chunk(hasText, text) ==
    [hasText |-> hasText, text |-> text]

\* Variant of KeepChunk that tests the text without trimming it.
KeepChunkNoTrim(chunk) ==
    chunk.hasText /\ chunk.text # <<>>

\* (chunk) => chunk.text && chunk.text.trim() !== ""
KeepChunk(chunk) ==
    chunk.hasText /\ chunk.text # <<>> /\ Trim(chunk.text) # <<>>

\* ({ ...content, chunks: content.chunks.filter(...) })
FilterChunks(content) ==
    [content EXCEPT !.chunks = SelectSeq(@, KeepChunk)]

\* (content) => content.chunks.length > 0
HasChunks(content) ==
    Len(content.chunks) > 0

FilterMessages(msgs) ==
    SelectSeq([i \in 1..Len(msgs) |-> FilterChunks(msgs[i])], HasChunks)

-----------------------------------------------------------------------------
\* Values the host view and the user can supply.

Hello == Chunk(TRUE, <<"H", "i">>)

Blank == Chunk(TRUE, <<" ">>)

Empty == Chunk(TRUE, <<>>)

MessageProps ==
    { <<>>,
      <<[chunks |-> <<Blank>>]>>,
      <<[chunks |-> <<Hello, Empty>>]>> }

ExampleNameProps == { <<>>, <<"P">> }

TagProps == { <<>>, << <<"t">> >> }

NameInputs == { <<>>, <<" ">>, <<"G">> }

DescriptionInputs == { <<>>, <<"d">> }

FilePathInputs == { <<>>, <<" ">>, <<"/", "f">> }

TagInputs == { <<>>, <<"a">>, <<"a", ",", " ", "b", " ", ",", ",", " ", "c">> }

SaveModes == { "database", "json" }

\* Date.now(), as decimal digits
Nows == { <<"1">> }

\* What a rejected persistence call can carry: an Error with a message, or
\* a value that is not an Error.
Errors ==
    { [isError |-> TRUE, message |-> "network down"],
      [isError |-> FALSE, message |-> "n/a"] }

-----------------------------------------------------------------------------
\* Notifications.

SuccessToast(mode) ==
    [title |-> "Success",
     description |-> IF mode = "database"
                     THEN "Example saved to database successfully"
                     ELSE "Example saved to JSON file successfully",
     variant |-> "unset"]

ValidationToast ==
    [title |-> "Error",
     description |-> "Please provide a file path for the JSON file.",
     variant |-> "destructive"]

ErrorToast(err) ==
    [title |-> "Error",
     description |-> IF err.isError THEN err.message ELSE "Failed to save example",
     variant |-> "destructive"]

Event(op, mode, calls, toasts) ==
    [op |-> op, mode |-> mode, calls |-> calls, toasts |-> toasts]

-----------------------------------------------------------------------------
\* Construction.

Init ==
    /\ messages \in MessageProps
    /\ tagsGiven \in BOOLEAN
    /\ tags \in IF tagsGiven THEN TagProps ELSE {<<>>}
    /\ exampleName \in ExampleNameProps
    /\ isOpen = FALSE
    /\ isSaving = FALSE
    /\ name = exampleName
    /\ description = <<>>
    /\ localTags = tags
    /\ saveMode = "database"
    /\ filePath = <<>>
    /\ inflight = <<>>
    /\ ev = Event("init", "none", <<>>, <<>>)

-----------------------------------------------------------------------------
\* The effect and its dependencies [isOpen, exampleName, tags].  It runs
\* after a render in which one of them changed.  tags is compared by
\* identity, and the default of a tags prop left out is a new array in every
\* render: the effect then runs after every render, so that an open dialog
\* keeps seeding.

EffectRuns(depsChanged) ==
    depsChanged \/ ~tagsGiven'

\* Variant of SeedName: an effect that does not set name.
SeedNameStale == name

\* setName(exampleName), with the props of the render the effect belongs to
SeedName == exampleName'

\* setLocalTags(tags)
SeedTags == tags'

\* The render that follows a handler which left name at n and localTags at
\* t, and the effect after it: if (isOpen) { setName(...); setLocalTags(...) }
Render(n, t, depsChanged) ==
    /\ name' = IF isOpen' /\ EffectRuns(depsChanged) THEN SeedName ELSE n
    /\ localTags' = IF isOpen' /\ EffectRuns(depsChanged) THEN SeedTags ELSE t

\* The dialog trigger: onOpenChange(true), then the effect.
OpenDialog ==
    /\ ~isOpen
    /\ isOpen' = TRUE
    /\ UNCHANGED props
    /\ Render(name, localTags, TRUE)
    /\ ev' = Event("openDialog", "none", <<>>, <<>>)
    /\ UNCHANGED <<isSaving, description, saveMode, filePath, inflight>>

\* Variant of CloseFields: a close that also resets the fields.
CancelResets ==
    /\ name' = <<>>
    /\ description' = <<>>
    /\ localTags' = <<>>
    /\ filePath' = <<>>

\* What closing without a save does to the fields: onOpenChange and the
\* Cancel button call setIsOpen(false) and nothing else.
CloseFields ==
    UNCHANGED <<name, description, localTags, filePath>>

\* The Cancel button.
Cancel ==
    /\ isOpen
    /\ isOpen' = FALSE
    /\ CloseFields
    /\ ev' = Event("cancel", "none", <<>>, <<>>)
    /\ UNCHANGED <<isSaving, saveMode, inflight, props>>

\* Dismissing the dialog (escape, outside click, close icon): onOpenChange(false).
Dismiss ==
    /\ isOpen
    /\ isOpen' = FALSE
    /\ CloseFields
    /\ ev' = Event("dismiss", "none", <<>>, <<>>)
    /\ UNCHANGED <<isSaving, saveMode, inflight, props>>

-----------------------------------------------------------------------------
\* The form's inputs, rendered while the dialog is open.

SetSaveMode(m) ==
    /\ isOpen
    /\ saveMode' = m
    /\ ev' = Event("setSaveMode", "none", <<>>, <<>>)
    /\ UNCHANGED <<isOpen, isSaving, description, filePath, inflight, props>>
    /\ Render(name, localTags, FALSE)

\* The file path input is rendered in json mode only.
SetFilePath(v) ==
    /\ isOpen
    /\ saveMode = "json"
    /\ filePath' = v
    /\ ev' = Event("setFilePath", "none", <<>>, <<>>)
    /\ UNCHANGED <<isOpen, isSaving, description, saveMode, inflight, props>>
    /\ Render(name, localTags, FALSE)

SetName(v) ==
    /\ isOpen
    /\ ev' = Event("setName", "none", <<>>, <<>>)
    /\ UNCHANGED <<isOpen, isSaving, description, saveMode, filePath, inflight, props>>
    /\ Render(v, localTags, FALSE)

SetDescription(v) ==
    /\ isOpen
    /\ description' = v
    /\ ev' = Event("setDescription", "none", <<>>, <<>>)
    /\ UNCHANGED <<isOpen, isSaving, saveMode, filePath, inflight, props>>
    /\ Render(name, localTags, FALSE)

SetLocalTags(raw) ==
    /\ isOpen
    /\ ev' = Event("setLocalTags", "none", <<>>, <<>>)
    /\ UNCHANGED <<isOpen, isSaving, description, saveMode, filePath, inflight, props>>
    /\ Render(name, ParseTags(raw), FALSE)

-----------------------------------------------------------------------------
\* The host view renders the component with new props.

SetPropMessages(m) ==
    /\ m # messages
    /\ messages' = m
    /\ UNCHANGED <<tags, tagsGiven, exampleName>>
    /\ ev' = Event("propMessages", "none", <<>>, <<>>)
    /\ UNCHANGED <<isOpen, isSaving, description, saveMode, filePath, inflight>>
    /\ Render(name, localTags, FALSE)

SetPropExampleName(v) ==
    /\ v # exampleName
    /\ exampleName' = v
    /\ UNCHANGED <<messages, tags, tagsGiven>>
    /\ ev' = Event("propExampleName", "none", <<>>, <<>>)
    /\ UNCHANGED <<isOpen, isSaving, description, saveMode, filePath, inflight>>
    /\ Render(name, localTags, TRUE)

\* The host passes a tags array (a new one, whether or not its elements
\* differ), or passes none.
SetPropTags(given, t) ==
    /\ tagsGiven' = given
    /\ tags' = IF given THEN t ELSE <<>>
    /\ UNCHANGED <<messages, exampleName>>
    /\ ev' = Event("propTags", "none", <<>>, <<>>)
    /\ UNCHANGED <<isOpen, isSaving, description, saveMode, filePath, inflight>>
    /\ Render(name, localTags, TRUE)

-----------------------------------------------------------------------------
\* handleSave.

\* Variant of SaveDisabled without the isSaving guard.
SaveDisabledNoSaving ==
    Trim(name) = <<>> \/ Len(messages) = 0

\* disabled={isSaving || !name.trim() || messages.length === 0}
SaveDisabled ==
    isSaving \/ Trim(name) = <<>> \/ Len(messages) = 0

\* `Example ${Date.now()}`
DefaultName(now) ==
    <<"E", "x", "a", "m", "p", "l", "e", " ">> \o now

Payload(now) ==
    [name |-> IF name = <<>> THEN DefaultName(now) ELSE name,
     description |-> description,
     messages |-> FilterMessages(messages),
     tags |-> localTags,
     is_global |-> TRUE,
     is_eval |-> FALSE,
     readable_by_user_ids |-> <<>>,
     readable_by_group_ids |-> <<>>]

ApiCall(api, args) ==
    [api |-> api, args |-> args]

\* Variant of EmptyFilePath that tests the path without trimming it.
EmptyFilePathUntrimmed ==
    saveMode = "json" /\ filePath = <<>>

\* if (!filePath.trim()), reached in json mode only
EmptyFilePath ==
    saveMode = "json" /\ Trim(filePath) = <<>>

\* Variant of SaveCalls without the branch on saveMode.
SaveCallsBoth(now) ==
    IF EmptyFilePath THEN <<>>
    ELSE <<ApiCall("createExample", <<Payload(now)>>),
           ApiCall("saveToJSON", <<filePath, Payload(now)>>)>>

\* The persistence calls one invocation makes before it suspends or returns.
SaveCalls(now) ==
    IF saveMode = "database"
    THEN <<ApiCall("createExample", <<Payload(now)>>)>>
    ELSE IF EmptyFilePath
    THEN <<>>
    ELSE <<ApiCall("saveToJSON", <<filePath, Payload(now)>>)>>

\* Variant of FinallyIsSaving: no finally block.
FinallyStale == isSaving

\* finally { setIsSaving(false) }
FinallyIsSaving == FALSE

\* A click on the save button: handleSave up to its await, or to its return
\* on the validation failure.  The updates of one handler are rendered
\* together, so setIsSaving(true) followed by setIsSaving(false) shows false.
HandleSave(now) ==
    /\ isOpen
    /\ ~SaveDisabled
    /\ IF EmptyFilePath
       THEN /\ isSaving' = FinallyIsSaving
            /\ inflight' = inflight
            /\ ev' = Event("handleSave", saveMode, SaveCalls(now), <<ValidationToast>>)
       ELSE /\ isSaving' = TRUE
            \* every call made is awaited
            /\ inflight' = inflight \o [i \in 1..Len(SaveCalls(now)) |-> [mode |-> saveMode]]
            /\ ev' = Event("handleSave", saveMode, SaveCalls(now), <<>>)
    /\ UNCHANGED <<isOpen, description, saveMode, filePath, props>>
    /\ Render(name, localTags, FALSE)

RemoveAt(s, i) ==
    SubSeq(s, 1, i - 1) \o SubSeq(s, i + 1, Len(s))

\* Variant of SuccessFields: a success that sets no state.
SuccessKeepsFields ==
    UNCHANGED <<isOpen, name, description, localTags, filePath>>

\* setIsOpen(false); setName(""); setDescription(""); setLocalTags([]); setFilePath("")
SuccessFields ==
    /\ isOpen' = FALSE
    /\ name' = <<>>
    /\ description' = <<>>
    /\ localTags' = <<>>
    /\ filePath' = <<>>

\* The awaited call of invocation i resolves: the rest of the try block, then
\* finally.  The effect runs on the change of isOpen and does nothing, the
\* dialog being closed.
SaveResolved(i) ==
    /\ i \in 1..Len(inflight)
    /\ inflight' = RemoveAt(inflight, i)
    /\ SuccessFields
    /\ isSaving' = FinallyIsSaving
    /\ ev' = Event("saveResolved", inflight[i].mode, <<>>,
                   <<SuccessToast(inflight[i].mode)>>)
    /\ UNCHANGED <<saveMode, props>>

\* Variant of CatchFields: a catch block that closes and resets.
CatchResets ==
    /\ isOpen' = FALSE
    /\ name' = <<>>
    /\ description' = <<>>
    /\ localTags' = <<>>
    /\ filePath' = <<>>

\* The catch block sets no state.
CatchFields ==
    /\ UNCHANGED <<isOpen, description, filePath>>
    /\ Render(name, localTags, FALSE)

\* The awaited call of invocation i rejects with err: catch, then finally.
SaveRejected(i, err) ==
    /\ i \in 1..Len(inflight)
    /\ inflight' = RemoveAt(inflight, i)
    /\ UNCHANGED <<saveMode, props>>
    /\ CatchFields
    /\ isSaving' = FinallyIsSaving
    /\ ev' = Event("saveRejected", inflight[i].mode, <<>>, <<ErrorToast(err)>>)

-----------------------------------------------------------------------------

Next ==
    \/ OpenDialog
    \/ Cancel
    \/ Dismiss
    \/ \E m \in SaveModes : SetSaveMode(m)
    \/ \E v \in FilePathInputs : SetFilePath(v)
    \/ \E v \in NameInputs : SetName(v)
    \/ \E v \in DescriptionInputs : SetDescription(v)
    \/ \E raw \in TagInputs : SetLocalTags(raw)
    \/ \E m \in MessageProps : SetPropMessages(m)
    \/ \E v \in ExampleNameProps : SetPropExampleName(v)
    \/ \E given \in BOOLEAN, t \in TagProps : SetPropTags(given, t)
    \/ \E now \in Nows : HandleSave(now)
    \/ \E i \in 1..Len(inflight) : SaveResolved(i)
    \/ \E i \in 1..Len(inflight), err \in Errors : SaveRejected(i, err)

Spec == Init /\ [][Next]_vars

-----------------------------------------------------------------------------
\* The filter specification: the dialog is open on a host that supplies any
\* messages within the bounds, and the save is clicked, which filters them
\* into the payload of the call.

ChunkValues ==
    { Chunk(FALSE, <<>>), Chunk(TRUE, <<" ">>),
      Chunk(TRUE, <<"a">>), Chunk(TRUE, <<" ", "b", " ">>) }

SeqsUpTo(S, n) ==
    UNION { [1..k -> S] : k \in 0..n }

AllContents ==
    { [chunks |-> c] : c \in SeqsUpTo(ChunkValues, MaxChunks) }

AllMessages ==
    SeqsUpTo(AllContents, MaxMsgs)

FilterInit ==
    /\ messages \in AllMessages
    /\ tagsGiven = TRUE
    /\ tags = <<>>
    /\ exampleName = <<"P">>
    /\ isOpen = TRUE
    /\ isSaving = FALSE
    /\ name = exampleName
    /\ description = <<>>
    /\ localTags = tags
    /\ saveMode = "database"
    /\ filePath = <<>>
    /\ inflight = <<>>
    /\ ev = Event("openDialog", "none", <<>>, <<>>)

FilterNext ==
    \E now \in Nows : HandleSave(now)

FilterSpec == FilterInit /\ [][FilterNext]_vars

-----------------------------------------------------------------------------
\* Properties.

\* The save button can be clicked.
SaveClick ==
    \E now \in Nows : HandleSave(now)

Fields == <<name, description, localTags, filePath>>

FieldsBlank ==
    /\ name = <<>>
    /\ description = <<>>
    /\ localTags = <<>>
    /\ filePath = <<>>

\* C1: isSaving is true only while an invocation of save() has started and
\* not finished, and it is false after each of the three ways an invocation
\* ends: the call resolved, the call rejected, the file path validation failed.
C1_IsSavingOnlyDuringSave ==
    /\ isSaving => Len(inflight) > 0
    /\ ev.op = "saveResolved" => ~isSaving
    /\ ev.op = "saveRejected" => ~isSaving
    /\ (ev.op = "handleSave" /\ ev.toasts # <<>>) => ~isSaving

\* A save was rejected, and the dialog is open with isSaving false again.
C1_Witness ==
    /\ ev.op = "saveRejected"
    /\ isOpen
    /\ ~isSaving

\* C2: a save in json mode with a file path that trims to empty makes no
\* persistence call, emits exactly the one "Error" notification with the
\* file path message, leaves the dialog open and resets no field.
C2_EmptyFilePathAborts ==
    [][(ev'.op = "handleSave" /\ saveMode = "json" /\ Trim(filePath) = <<>>)
        => /\ ev'.calls = <<>>
           /\ inflight' = inflight
           /\ Len(ev'.toasts) = 1
           /\ ev'.toasts[1].title = "Error"
           /\ ev'.toasts[1].description = "Please provide a file path for the JSON file."
           /\ isOpen'
           /\ UNCHANGED <<name, description, localTags, filePath>>]_vars

\* The save was clicked in json mode with a file path of one space.
C2_Witness ==
    /\ ev.op = "handleSave"
    /\ ev.mode = "json"
    /\ filePath = <<" ">>
    /\ ev.calls = <<>>
    /\ description # <<>>
    /\ isOpen

\* C3: when the persistence call resolves, in either mode, the dialog is
\* closed, name, description, localTags and filePath are empty, and the one
\* notification is the success notification of the invocation's mode.
C3_SuccessResets ==
    ev.op = "saveResolved"
        => /\ ~isOpen
           /\ FieldsBlank
           /\ Len(ev.toasts) = 1
           /\ ev.toasts[1].title = "Success"
           /\ ev.mode = "database"
                => ev.toasts[1].description = "Example saved to database successfully"
           /\ ev.mode = "json"
                => ev.toasts[1].description = "Example saved to JSON file successfully"

\* A save in json mode resolved.
C3_Witness ==
    /\ ev.op = "saveResolved"
    /\ ev.mode = "json"
    /\ ~isOpen

\* C4: handling a rejected persistence call leaves isOpen, name,
\* description, localTags, filePath and saveMode as they were, sets isSaving
\* to false and emits one "Error" notification.
C4_FailureKeepsState ==
    [][ev'.op = "saveRejected"
        => /\ UNCHANGED <<isOpen, name, description, localTags, filePath, saveMode>>
           /\ ~isSaving'
           /\ Len(ev'.toasts) = 1
           /\ ev'.toasts[1].title = "Error"
           /\ ev'.calls = <<>>]_vars

\* A save was rejected while the dialog was open with a description typed.
C4_Witness ==
    /\ ev.op = "saveRejected"
    /\ isOpen
    /\ Trim(name) # <<>>
    /\ description # <<>>
    /\ ev.toasts[1].description = "network down"

\* C5 as stated: every invocation of save() makes exactly one persistence
\* call, the one of the save mode at the time of the invocation.
C5_ExactlyOneCall ==
    ev.op = "handleSave"
        => /\ Len(ev.calls) = 1
           /\ ev.calls[1].api = (IF saveMode = "database"
                                 THEN "createExample" ELSE "saveToJSON")

\* C5 as amended: an invocation of save() makes no persistence call in json
\* mode with a file path that trims to empty, and otherwise exactly one, the
\* one of the save mode at the time of the invocation (saveToJSON with the
\* file path); the steps that settle the call make none.
C5_OneCallUnlessEmptyPath ==
    /\ ev.op = "handleSave"
        => IF saveMode = "json" /\ Trim(filePath) = <<>>
           THEN ev.calls = <<>>
           ELSE /\ Len(ev.calls) = 1
                /\ Len(inflight) = 1
                /\ saveMode = "database"
                     => /\ ev.calls[1].api = "createExample"
                        /\ Len(ev.calls[1].args) = 1
                /\ saveMode = "json"
                     => /\ ev.calls[1].api = "saveToJSON"
                        /\ ev.calls[1].args[1] = filePath
    /\ ev.op \in {"saveResolved", "saveRejected"} => ev.calls = <<>>

\* A save was clicked in json mode and made its one call.
C5_Witness ==
    /\ ev.op = "handleSave"
    /\ saveMode = "json"
    /\ Len(ev.calls) = 1

\* C6 as stated: the save control is disabled if name trims to empty or
\* messages is empty, and enabled in every other state.
C6_DisabledIffBlankOrEmpty ==
    isOpen => ((~ENABLED SaveClick) <=> (Trim(name) = <<>> \/ Len(messages) = 0))

\* C6 as amended: the save control of the open dialog is disabled if
\* isSaving is true, name trims to empty or messages is empty, and enabled
\* in every other state.
C6_DisabledIffSavingBlankOrEmpty ==
    isOpen => ((~ENABLED SaveClick)
                  <=> (isSaving \/ Trim(name) = <<>> \/ Len(messages) = 0))

\* The dialog is open during a save, with a name and messages.
C6_Witness ==
    /\ isOpen
    /\ isSaving
    /\ Trim(name) # <<>>
    /\ Len(messages) > 0

\* C7: at most one persistence call is in flight, and while one is the save
\* control is disabled through isSaving, whatever the user did meanwhile.
C7_AtMostOneInFlight ==
    /\ Len(inflight) <= 1
    /\ Len(inflight) > 0 => (isSaving /\ ~ENABLED SaveClick)

\* The dialog was closed and opened again while the call is pending, in the
\* other save mode.
C7_Witness ==
    /\ Len(inflight) = 1
    /\ ev.op = "openDialog"
    /\ saveMode # inflight[1].mode
    /\ Trim(name) # <<>>
    /\ Len(messages) > 0

\* a is b with some elements left out, the rest in b's order.
RECURSIVE IsSubseq(_, _)
IsSubseq(a, b) ==
    IF a = <<>> THEN TRUE
    ELSE IF b = <<>> THEN FALSE
    ELSE IF Head(a) = Head(b) THEN IsSubseq(Tail(a), Tail(b))
    ELSE IsSubseq(a, Tail(b))

\* Each message of out is a message of in with some chunks left out, and
\* the messages of out follow the order of in.
RECURSIVE IsContentSubseq(_, _)
IsContentSubseq(out, in) ==
    IF out = <<>> THEN TRUE
    ELSE IF in = <<>> THEN FALSE
    ELSE IF IsSubseq(Head(out).chunks, Head(in).chunks)
    THEN IsContentSubseq(Tail(out), Tail(in))
    ELSE IsContentSubseq(out, Tail(in))

\* The messages of the payload the last click sent.
SentMessages ==
    ev.calls[1].args[1].messages

\* C8: the messages of the payload hold only chunks whose text is non-empty
\* after trimming and only contents with at least one chunk, in the order of
\* the input, and filtering them again changes nothing.
C8_FilterProperties ==
    (ev.op = "handleSave" /\ Len(ev.calls) = 1)
        => /\ \A i \in 1..Len(SentMessages) :
                /\ Len(SentMessages[i].chunks) >= 1
                /\ \A j \in 1..Len(SentMessages[i].chunks) :
                      /\ SentMessages[i].chunks[j].hasText
                      /\ Trim(SentMessages[i].chunks[j].text) # <<>>
           /\ IsContentSubseq(SentMessages, messages)
           /\ FilterMessages(SentMessages) = SentMessages

\* Two messages were sent of which the filter dropped one and kept the
\* other with a chunk removed.
C8_Witness ==
    /\ ev.op = "handleSave"
    /\ Len(ev.calls) = 1
    /\ Len(messages) = 2
    /\ Len(SentMessages) = 1
    /\ Len(messages[2].chunks) = 2
    /\ SentMessages[1].chunks = <<Chunk(TRUE, <<" ", "b", " ">>)>>

\* C9: when the dialog goes from closed to open, name becomes the
\* exampleName prop and localTags the tags prop, and description keeps its
\* value.
C9_OpenSeeds ==
    [][(~isOpen /\ isOpen')
        => /\ name' = exampleName
           /\ localTags' = tags
           /\ UNCHANGED <<exampleName, tags>>
           /\ description' = description]_vars

\* The dialog was opened again with a description left from an earlier
\* opening, and the name is the prop's.
C9_Witness ==
    /\ ev.op = "openDialog"
    /\ isOpen
    /\ description # <<>>
    /\ name = <<"P">>
    /\ localTags = << <<"t">> >>

UserInputOps ==
    {"setSaveMode", "setFilePath", "setName", "setDescription", "setLocalTags"}

\* C10 as stated: while the dialog is open the fields change only through
\* user input, and whenever the dialog closes name, description, localTags
\* and filePath are reset to empty.
C10_CloseAlwaysResets ==
    [][/\ (isOpen /\ isOpen' /\ <<Fields, saveMode>>' # <<Fields, saveMode>>)
            => ev'.op \in UserInputOps
       /\ (isOpen /\ ~isOpen') => FieldsBlank']_vars

\* C10 as amended: while the dialog is open the fields change only through
\* user input or, for name and localTags, through the seeding that a change
\* of the exampleName or tags prop runs; a successful save closes the
\* dialog and resets name, description, localTags and filePath to empty;
\* Cancel and dismissal close it and change none of these nor saveMode.
C10_OnlySuccessResets ==
    [][/\ (isOpen /\ isOpen' /\ <<Fields, saveMode>>' # <<Fields, saveMode>>)
            => \/ ev'.op \in UserInputOps
               \/ /\ ev'.op \in {"propExampleName", "propTags"}
                  /\ name' = exampleName'
                  /\ localTags' = tags'
                  /\ UNCHANGED <<description, saveMode, filePath>>
       /\ (isOpen /\ ~isOpen')
            => IF ev'.op = "saveResolved"
               THEN FieldsBlank'
               ELSE /\ ev'.op \in {"cancel", "dismiss"}
                    /\ UNCHANGED <<Fields, saveMode>>]_vars

\* The dialog was cancelled and what was typed is still there.
C10_Witness ==
    /\ ev.op = "cancel"
    /\ ~isOpen
    /\ description # <<>>
    /\ filePath # <<>>
    /\ name = <<"G">>

=============================================================================
